---- MODULE Spec2Model ----
(***************************************************************************)
(* songweaver-ai (src/app.py): main() parses the command line, calls       *)
(* generate_lyrics, then generate_melody, then prints.  The model follows  *)
(* main statement by statement.  Strings are sequences of one-character    *)
(* strings.  The text-generation pipeline, the MIDI writer, argparse and   *)
(* the file system are library calls: each either returns or raises, and   *)
(* the text the language model returns is any continuation of the prompt.  *)
(* Python's global random generator is a deterministic state machine       *)
(* (state rng, transition NextState, output RandBits).                     *)
(***************************************************************************)
EXTENDS Integers, Sequences, FiniteSets, TLC

VARIABLES argv, args, pc, prompt, seed, text, lyrics, rng, midi, i, file,
          printed, attempts, failedAt, rng0, run, prev

vars == <<argv, args, pc, prompt, seed, text, lyrics, rng, midi, i, file,
          printed, attempts, failedAt, rng0, run, prev>>

----------------------------------------------------------------------------
(* Bounds of the model *)

\* --melody-notes ranges over -MaxNotes..MaxNotes
MaxNotes == 2
\* at most this many positional keywords on the command line
MaxKeywords == 2
\* the language model's continuation is made of at most this many pieces
MaxPieces == 2
\* number of states of the global random generator
RngMod == 8
\* stands for 2**32, the number of seeds random.randint(0, 2**32 - 1) can return
SeedSpace == 16

----------------------------------------------------------------------------
(* Program constants *)

Track == 0
Channel == 0
StartTime == 0
Duration == 1
Volume == 100
Tempo == 120

\* scale = [60, 62, 64, 65, 67, 69, 71, 72]
Scale == <<60, 62, 64, 65, 67, 69, 71, 72>>

\* default of --output-melody
OutputMelody == "melody.mid"

\* "Write a song about "
PromptHead ==
  <<"W","r","i","t","e"," ","a"," ","s","o","n","g"," ","a","b","o","u","t"," ">>

\* ":\n"
PromptTail == <<":", "\n">>

\* ", "
Separator == <<",", " ">>

\* the characters str.strip() removes
Whitespace == {" ", "\n", "\t", "\r"}

----------------------------------------------------------------------------
(* Inputs *)

KeywordPool == { <<"s","u","n">>, <<"a"," ","b">> }

RECURSIVE SeqsUpTo(_, _)
SeqsUpTo(S, n) ==
  IF n = 0 THEN { <<>> }
  ELSE LET shorter == SeqsUpTo(S, n - 1)
       IN  shorter \cup { Append(q, x) : q \in shorter, x \in S }

\* the positional arguments: zero keywords is what nargs="+" rejects
KeywordLists == SeqsUpTo(KeywordPool, MaxKeywords)

\* the value given to --melody-notes: an integer literal or a word int() rejects
NoteTokens ==
  { [isInt |-> TRUE, val |-> n] : n \in (0 - MaxNotes)..MaxNotes }
    \cup { [isInt |-> FALSE, val |-> 0] }

\* what the language model appends to the prompt: letters, whitespace, or the
\* prompt once more
PromptEcho == "<prompt>"
Pieces == {"a", " ", PromptEcho}
Continuations == SeqsUpTo(Pieces, MaxPieces)

----------------------------------------------------------------------------
(* Pure helpers *)

Max0(n) == IF n > 0 THEN n ELSE 0

\* sep.join(list)
RECURSIVE Join(_, _)
Join(sep, list) ==
  IF list = <<>> THEN <<>>
  ELSE IF Len(list) = 1 THEN Head(list)
  ELSE Head(list) \o sep \o Join(sep, Tail(list))

\* prompt = "Write a song about " + ", ".join(keywords) + ":\n"
Prompt(keywords) == PromptHead \o Join(Separator, keywords) \o PromptTail

\* s[n:]
Slice(s, n) == IF n >= Len(s) THEN <<>> ELSE SubSeq(s, n + 1, Len(s))

RECURSIVE LStrip(_)
LStrip(s) ==
  IF s # <<>> /\ Head(s) \in Whitespace THEN LStrip(Tail(s)) ELSE s

RECURSIVE RStrip(_)
RStrip(s) ==
  IF s # <<>> /\ s[Len(s)] \in Whitespace
  THEN RStrip(SubSeq(s, 1, Len(s) - 1)) ELSE s

\* a faulty trim that forgets the right end
StripLeftOnly(s) == LStrip(s)

\* s.strip()
Strip(s) == RStrip(LStrip(s))

\* lyrics = text[len(prompt):].strip()
ExtractLyrics(t, p) == Strip(Slice(t, Len(p)))

\* p occurs in s as a contiguous substring
Contains(s, p) ==
  \E k \in 0..(Len(s) - Len(p)) : SubSeq(s, k + 1, k + Len(p)) = p

\* the characters of a continuation
RECURSIVE Flatten(_, _)
Flatten(pieces, p) ==
  IF pieces = <<>> THEN <<>>
  ELSE (IF Head(pieces) = PromptEcho THEN p ELSE <<Head(pieces)>>)
         \o Flatten(Tail(pieces), p)

\* generated[0]["generated_text"]: the prompt followed by the continuation
GeneratedText(p, pieces) == p \o Flatten(pieces, p)

----------------------------------------------------------------------------
(* The global random generator *)

RngStates == 0..(RngMod - 1)

\* the generator's state after one draw
NextState(s) == (5 * s + 3) % RngMod

\* the bits one draw returns
RandBits(s) == s

\* random.randint(a, b)
RandInt(a, b, s) == a + (RandBits(s) % (b - a + 1))

\* random.seed(seed), which set_seed(seed) calls
SeedState(sd) == (7 * sd + 3) % RngMod

\* a faulty choice that takes any semitone of the octave
RandomChromatic(seq, s) == seq[1] + (RandBits(s) % 13)

\* random.choice(seq)
RandomChoice(seq, s) == seq[(RandBits(s) % Len(seq)) + 1]

\* a faulty loop over range(abs(n))
InRangeAbs(k, n) == k < (IF n < 0 THEN 0 - n ELSE n)

\* a faulty loop over range(n + 1)
InRangeInclusive(k, n) == k <= n

\* for i in range(n): the loop runs again
InRange(k, n) == k < n

\* a faulty addNote call that passes time instead of time + i
NoteTimeFixed(time, k) == time

\* time + i
NoteTime(time, k) == time + k

\* the pitches n successive random.choice(scale) calls return from state s
RECURSIVE PitchSeq(_, _)
PitchSeq(s, n) ==
  IF n <= 0 THEN <<>>
  ELSE <<RandomChoice(Scale, s)>> \o PitchSeq(NextState(s), n - 1)

Pitches(notes) == [k \in 1..Len(notes) |-> notes[k].pitch]

----------------------------------------------------------------------------
(* Control flow of main *)

LyricsSteps == {"prompt", "load", "draw_seed", "set_seed", "generate", "extract"}
MelodySteps == {"melody_init", "loop", "open", "write"}
PrintSteps  == {"print_header", "print_lyrics", "print_saved"}
Steps == {"parse"} \cup LyricsSteps \cup MelodySteps \cup PrintSteps

\* the first statement of each call main makes
EntryOf(fn) ==
  CASE fn = "lyrics" -> "prompt"
    [] fn = "melody" -> "melody_init"
    [] fn = "print"  -> "print_header"
    [] fn = "exit"   -> "done"

\* a faulty main that calls generate_melody before generate_lyrics
CallAfterSwapped(fn) ==
  CASE fn = "parse"  -> "melody"
    [] fn = "melody" -> "lyrics"
    [] fn = "lyrics" -> "print"
    [] fn = "print"  -> "exit"

\* main: parse_args, generate_lyrics, generate_melody, the prints, in that order
CallAfter(fn) ==
  CASE fn = "parse"  -> "lyrics"
    [] fn = "lyrics" -> "melody"
    [] fn = "melody" -> "print"
    [] fn = "print"  -> "exit"

\* the statement that follows `step` when it returns normally
PcAfter(step) ==
  CASE step = "parse"        -> EntryOf(CallAfter("parse"))
    [] step = "prompt"       -> "load"
    [] step = "load"         -> "draw_seed"
    [] step = "draw_seed"    -> "set_seed"
    [] step = "set_seed"     -> "generate"
    [] step = "generate"     -> "extract"
    [] step = "extract"      -> EntryOf(CallAfter("lyrics"))
    [] step = "melody_init"  -> "loop"
    [] step = "loop"         -> "open"
    [] step = "open"         -> "write"
    [] step = "write"        -> EntryOf(CallAfter("melody"))
    [] step = "print_header" -> "print_lyrics"
    [] step = "print_lyrics" -> "print_saved"
    [] step = "print_saved"  -> EntryOf(CallAfter("print"))

\* a faulty handler that runs the failed step again
OnFailureRetry(step) == step

\* a faulty handler that swallows the exception and goes on
OnFailureContinue(step) == PcAfter(step)

\* no try/except anywhere: an exception raised by `step` ends the process
OnFailure(step) == "error"

Returns(step) ==
  /\ pc = step
  /\ pc' = PcAfter(step)
  /\ attempts' = [attempts EXCEPT ![step] = @ + 1]
  /\ failedAt' = failedAt

Raises(step) ==
  /\ pc = step
  /\ pc' = OnFailure(step)
  /\ attempts' = [attempts EXCEPT ![step] = @ + 1]
  /\ failedAt' = step

----------------------------------------------------------------------------
(* State *)

NoArgs == [keywords |-> <<>>, melody_notes |-> 0, output_melody |-> ""]
NoMidi == [created |-> FALSE, tempo |-> 0, notes |-> <<>>]
NoFile == [status |-> "untouched", notes |-> <<>>]
NoRun  == [built |-> FALSE, pitches |-> <<>>]

Locals0 ==
  /\ args = NoArgs
  /\ pc = "parse"
  /\ prompt = <<>>
  /\ seed = 0
  /\ text = <<>>
  /\ lyrics = <<>>
  /\ midi = NoMidi
  /\ i = 0
  /\ printed = <<>>
  /\ attempts = [s \in Steps |-> 0]
  /\ failedAt = "none"

Init ==
  /\ argv \in [keywords : KeywordLists, melody_notes : NoteTokens]
  /\ rng0 \in RngStates
  /\ rng = rng0
  /\ file = NoFile
  /\ run = 1
  /\ prev = NoRun
  /\ Locals0

ArgvValid == argv.keywords # <<>> /\ argv.melody_notes.isInt

----------------------------------------------------------------------------
(* main *)

\* args = parser.parse_args()
ParseArgs ==
  /\ ArgvValid
  /\ Returns("parse")
  /\ args' = [keywords |-> argv.keywords,
              melody_notes |-> argv.melody_notes.val,
              output_melody |-> OutputMelody]
  /\ UNCHANGED <<argv, prompt, seed, text, lyrics, rng, midi, i, file, printed,
                 rng0, run, prev>>

\* parse_args rejects the command line and exits
ParseArgsFail ==
  /\ ~ArgvValid
  /\ Raises("parse")
  /\ UNCHANGED <<argv, args, prompt, seed, text, lyrics, rng, midi, i, file,
                 printed, rng0, run, prev>>

(* generate_lyrics *)

BuildPrompt ==
  /\ Returns("prompt")
  /\ prompt' = Prompt(args.keywords)
  /\ UNCHANGED <<argv, args, seed, text, lyrics, rng, midi, i, file, printed,
                 rng0, run, prev>>

\* generator = pipeline("text-generation", model="gpt2")
LoadPipeline ==
  /\ Returns("load")
  /\ UNCHANGED <<argv, args, prompt, seed, text, lyrics, rng, midi, i, file,
                 printed, rng0, run, prev>>

LoadPipelineFail ==
  /\ Raises("load")
  /\ UNCHANGED <<argv, args, prompt, seed, text, lyrics, rng, midi, i, file,
                 printed, rng0, run, prev>>

\* a faulty draw that mixes one bit of the wall clock into the seed
DrawSeedWithClock ==
  /\ Returns("draw_seed")
  /\ \E tick \in {0, 1} :
       seed' = (RandInt(0, SeedSpace - 1, rng) + tick) % SeedSpace
  /\ rng' = rng
  /\ UNCHANGED <<argv, args, prompt, text, lyrics, midi, i, file, printed,
                 rng0, run, prev>>

\* seed = random.randint(0, 2**32 - 1)
DrawSeed ==
  /\ Returns("draw_seed")
  /\ seed' = RandInt(0, SeedSpace - 1, rng)
  /\ rng' = NextState(rng)
  /\ UNCHANGED <<argv, args, prompt, text, lyrics, midi, i, file, printed,
                 rng0, run, prev>>

\* a faulty set_seed that seeds the model's generator only
SetSeedModelOnly ==
  /\ Returns("set_seed")
  /\ UNCHANGED <<argv, args, prompt, seed, text, lyrics, rng, midi, i, file,
                 printed, rng0, run, prev>>

\* set_seed(seed): seeds Python's random, numpy and torch
SetSeed ==
  /\ Returns("set_seed")
  /\ rng' = SeedState(seed)
  /\ UNCHANGED <<argv, args, prompt, seed, text, lyrics, midi, i, file,
                 printed, rng0, run, prev>>

\* generated = generator(prompt, ...); text = generated[0]["generated_text"]
Generate ==
  /\ Returns("generate")
  /\ \E c \in Continuations : text' = GeneratedText(prompt, c)
  /\ UNCHANGED <<argv, args, prompt, seed, lyrics, rng, midi, i, file, printed,
                 rng0, run, prev>>

GenerateFail ==
  /\ Raises("generate")
  /\ UNCHANGED <<argv, args, prompt, seed, text, lyrics, rng, midi, i, file,
                 printed, rng0, run, prev>>

\* lyrics = text[len(prompt):].strip(); return lyrics
Extract ==
  /\ Returns("extract")
  /\ lyrics' = ExtractLyrics(text, prompt)
  /\ UNCHANGED <<argv, args, prompt, seed, text, rng, midi, i, file, printed,
                 rng0, run, prev>>

(* generate_melody *)

\* midi = MIDIFile(1); midi.addTempo(track, time, tempo)
MelodyInit ==
  /\ Returns("melody_init")
  /\ midi' = [created |-> TRUE, tempo |-> Tempo, notes |-> <<>>]
  /\ i' = 0
  /\ UNCHANGED <<argv, args, prompt, seed, text, lyrics, rng, file, printed,
                 rng0, run, prev>>

\* one iteration: pitch = random.choice(scale); midi.addNote(...)
AddNote ==
  /\ pc = "loop"
  /\ InRange(i, args.melody_notes)
  /\ midi' = [midi EXCEPT !.notes =
                Append(@, [track |-> Track, channel |-> Channel,
                           pitch |-> RandomChoice(Scale, rng),
                           time |-> NoteTime(StartTime, i),
                           duration |-> Duration, volume |-> Volume])]
  /\ rng' = NextState(rng)
  /\ i' = i + 1
  /\ UNCHANGED <<argv, args, pc, prompt, seed, text, lyrics, file, printed,
                 attempts, failedAt, rng0, run, prev>>

\* range(num_notes) is exhausted
LoopExit ==
  /\ ~InRange(i, args.melody_notes)
  /\ Returns("loop")
  /\ UNCHANGED <<argv, args, prompt, seed, text, lyrics, rng, midi, i, file,
                 printed, rng0, run, prev>>

\* open(filename, "wb") creates or truncates the file
OpenFile ==
  /\ Returns("open")
  /\ file' = [status |-> "opened", notes |-> <<>>]
  /\ UNCHANGED <<argv, args, prompt, seed, text, lyrics, rng, midi, i, printed,
                 rng0, run, prev>>

OpenFileFail ==
  /\ Raises("open")
  /\ UNCHANGED <<argv, args, prompt, seed, text, lyrics, rng, midi, i, file,
                 printed, rng0, run, prev>>

\* midi.writeFile(out_file), then the with block closes the file
WriteFile ==
  /\ Returns("write")
  /\ file' = [status |-> "written", notes |-> midi.notes]
  /\ UNCHANGED <<argv, args, prompt, seed, text, lyrics, rng, midi, i, printed,
                 rng0, run, prev>>

\* the write raises part-way: some prefix of the notes is on disk
WriteFileFail ==
  /\ Raises("write")
  /\ \E k \in 0..Len(midi.notes) :
       file' = [status |-> "partial", notes |-> SubSeq(midi.notes, 1, k)]
  /\ UNCHANGED <<argv, args, prompt, seed, text, lyrics, rng, midi, i, printed,
                 rng0, run, prev>>

(* the prints of main *)

Line(what, body, path) == [what |-> what, text |-> body, path |-> path]

\* print("Generated Lyrics:\n")
PrintHeader ==
  /\ Returns("print_header")
  /\ printed' = Append(printed, Line("header", <<>>, ""))
  /\ UNCHANGED <<argv, args, prompt, seed, text, lyrics, rng, midi, i, file,
                 rng0, run, prev>>

\* print(lyrics)
PrintLyrics ==
  /\ Returns("print_lyrics")
  /\ printed' = Append(printed, Line("lyrics", lyrics, ""))
  /\ UNCHANGED <<argv, args, prompt, seed, text, lyrics, rng, midi, i, file,
                 rng0, run, prev>>

\* print(f"\nMelody saved to {args.output_melody}")
PrintSaved ==
  /\ Returns("print_saved")
  /\ printed' = Append(printed, Line("saved", <<>>, args.output_melody))
  /\ UNCHANGED <<argv, args, prompt, seed, text, lyrics, rng, midi, i, file,
                 rng0, run, prev>>

----------------------------------------------------------------------------
(* Specifications *)

Terminated == pc \in {"done", "error"}

\* the note loop has run to its end
MelodyBuilt ==
  \/ pc \in {"open", "write"} \cup PrintSteps \cup {"done"}
  \/ pc = "error" /\ failedAt \in {"open", "write"}

Next ==
  \/ ParseArgs \/ ParseArgsFail
  \/ BuildPrompt
  \/ LoadPipeline \/ LoadPipelineFail
  \/ DrawSeed
  \/ SetSeed
  \/ Generate \/ GenerateFail
  \/ Extract
  \/ MelodyInit
  \/ AddNote
  \/ LoopExit
  \/ OpenFile \/ OpenFileFail
  \/ WriteFile \/ WriteFileFail
  \/ PrintHeader \/ PrintLyrics \/ PrintSaved

\* one run of the script
Spec == Init /\ [][Next]_vars

\* a single-threaded process keeps executing while a statement is left
FairSpec == Spec /\ WF_vars(Next)

\* the script is run a second time with the same command line, the global
\* random generator in the state the first run started from; the file system
\* keeps the first run's output
Rerun ==
  /\ Terminated
  /\ run = 1
  /\ run' = 2
  /\ prev' = [built |-> MelodyBuilt, pitches |-> Pitches(midi.notes)]
  /\ rng' = rng0
  /\ args' = NoArgs
  /\ pc' = "parse"
  /\ prompt' = <<>>
  /\ seed' = 0
  /\ text' = <<>>
  /\ lyrics' = <<>>
  /\ midi' = NoMidi
  /\ i' = 0
  /\ printed' = <<>>
  /\ attempts' = [s \in Steps |-> 0]
  /\ failedAt' = "none"
  /\ UNCHANGED <<argv, file, rng0>>

NextTwice == Next \/ Rerun

TwoRunSpec == Init /\ [][NextTwice]_vars

----------------------------------------------------------------------------
(* Properties *)

ScaleSet == { Scale[k] : k \in 1..Len(Scale) }

NotesRequested == args.melody_notes

LyricsReturned == attempts["extract"] = 1

Trimmed(s) == s = <<>> \/ (Head(s) \notin Whitespace /\ s[Len(s)] \notin Whitespace)

StepOrder ==
  <<"parse", "prompt", "load", "draw_seed", "set_seed", "generate", "extract",
    "melody_init", "loop", "open", "write",
    "print_header", "print_lyrics", "print_saved">>

StepIndex(step) == CHOOSE k \in 1..Len(StepOrder) : StepOrder[k] = step

\* the generator state generate_lyrics leaves behind, from the state s before it
RngAfterLyrics(s) == SeedState(RandInt(0, SeedSpace - 1, s))

\* C1: for N >= 1, once the note loop has finished the melody handed to the
\* MIDI writer has exactly N notes, the k-th starting at time k - 1, each of
\* duration 1; the file written holds exactly those notes.
C1_MelodyShape ==
  (MelodyBuilt /\ NotesRequested >= 1) =>
    /\ Len(midi.notes) = NotesRequested
    /\ \A k \in 1..Len(midi.notes) :
         midi.notes[k].time = k - 1 /\ midi.notes[k].duration = 1
    /\ (attempts["write"] = 1 /\ failedAt = "none") => file.notes = midi.notes

C1_Witness ==
  /\ pc = "done"
  /\ NotesRequested = 2
  /\ Len(file.notes) = 2
  /\ file.notes[2].time = 1

\* C2 as stated: inside generate_melody every note added so far has a pitch of
\* the scale and the number of notes added is at most the requested count.
C2_CountAtMostRequested ==
  pc \in MelodySteps =>
    /\ \A k \in 1..Len(midi.notes) : midi.notes[k].pitch \in ScaleSet
    /\ Len(midi.notes) <= NotesRequested

\* C2 amended: in every state every note added so far has a pitch of the scale
\* and the number of notes added is at most max(N, 0).
C2_ScaleAndCount ==
  /\ \A k \in 1..Len(midi.notes) : midi.notes[k].pitch \in ScaleSet
  /\ Len(midi.notes) <= Max0(NotesRequested)

C2_Witness ==
  /\ pc = "loop"
  /\ NotesRequested = 2
  /\ Len(midi.notes) = 1

\* C3 as stated: the returned lyrics never contain the prompt and have no
\* leading or trailing whitespace.
C3_NeverContainsPrompt ==
  LyricsReturned =>
    /\ ~Contains(lyrics, Prompt(args.keywords))
    /\ Trimmed(lyrics)

\* C3 amended: the returned lyrics are a trimmed part of what the language
\* model appended after the prompt: no leading or trailing whitespace, and
\* the prompt occurs in them only if the model's continuation repeats it.
C3_LeadingPromptRemoved ==
  LyricsReturned =>
    /\ Trimmed(lyrics)
    /\ Contains(Slice(text, Len(Prompt(args.keywords))), lyrics)
    /\ Contains(lyrics, Prompt(args.keywords)) =>
         Contains(Slice(text, Len(Prompt(args.keywords))), Prompt(args.keywords))

C3_Witness ==
  /\ LyricsReturned
  /\ Len(args.keywords) = 2
  /\ lyrics = <<"a">>
  /\ Len(text) = Len(prompt) + 2
  /\ text[Len(text)] = " "

\* C4: lyrics generation completes before melody generation begins and
\* melody generation, file write included, completes before anything is
\* printed; while lyrics generation is in progress no note has been added and
\* the file has not been opened.
C4_FixedOrder ==
  /\ (pc \in LyricsSteps \/ failedAt \in LyricsSteps) =>
       midi = NoMidi /\ file = NoFile /\ printed = <<>>
  /\ (pc \in MelodySteps \/ failedAt \in MelodySteps) =>
       LyricsReturned /\ printed = <<>>
  /\ printed # <<>> =>
       LyricsReturned /\ attempts["write"] = 1 /\ file.status = "written"

C4_Witness ==
  /\ pc = "write"
  /\ lyrics = <<"a", "a">>
  /\ Len(midi.notes) = 2
  /\ file.status = "opened"

\* C5: no step is attempted more than once, and after a step fails the run is
\* in the terminal error state: no step that follows the failed one has been
\* executed and no statement is left to execute.
C5_NoCatchNoRetry ==
  /\ \A s \in Steps : attempts[s] <= 1
  /\ failedAt # "none" =>
       /\ pc = "error"
       /\ \A s \in Steps :
            StepIndex(s) > StepIndex(failedAt) => attempts[s] = 0
  /\ pc = "error" => ~ENABLED Next

C5_Witness ==
  /\ pc = "error"
  /\ failedAt = "generate"
  /\ attempts["generate"] = 1
  /\ attempts["load"] = 1

\* C6 as stated: generate_lyrics leaves the global random generator as it
\* found it, so the pitches are those the generator's initial state gives.
C6_LyricsLeavesRngAlone ==
  /\ pc = "melody_init" => rng = rng0
  /\ MelodyBuilt => Pitches(midi.notes) = PitchSeq(rng0, NotesRequested)

\* C6 amended: the global random generator is the one piece of state the two
\* steps share: generate_lyrics draws its seed from it and re-seeds it, so
\* generate_melody starts from the state seeded with that seed and its pitches
\* are the ones that state gives; the lyrics step changes nothing else that
\* generate_melody reads or writes (arguments, note list, file).
C6_SharesOnlyRng ==
  /\ pc = "melody_init" =>
       /\ seed = RandInt(0, SeedSpace - 1, rng0)
       /\ rng = RngAfterLyrics(rng0)
       /\ midi = NoMidi /\ i = 0 /\ file = NoFile
       /\ args.melody_notes = argv.melody_notes.val
  /\ MelodyBuilt =>
       Pitches(midi.notes) = PitchSeq(RngAfterLyrics(rng0), NotesRequested)

C6_Witness ==
  /\ MelodyBuilt
  /\ NotesRequested = 2
  /\ Pitches(midi.notes) # PitchSeq(rng0, 2)
  /\ Pitches(midi.notes) = PitchSeq(RngAfterLyrics(rng0), 2)

\* C7: two runs with the same command line that start from the same state of
\* the global random generator produce the same pitch sequence, whatever the
\* language model returned in each.
C7_SameSeedSamePitches ==
  (run = 2 /\ prev.built /\ MelodyBuilt) => Pitches(midi.notes) = prev.pitches

C7_Witness ==
  /\ run = 2
  /\ prev.built
  /\ pc = "done"
  /\ Len(prev.pitches) = 2
  /\ Pitches(midi.notes) = prev.pitches
  /\ prev.pitches[1] # prev.pitches[2]

\* C8: for a --melody-notes value N <= 0 that the parser accepts, the note
\* loop adds no note at all: the note list and the file stay empty.
C8_NonPositiveAddsNothing ==
  (pc # "parse" /\ NotesRequested <= 0) =>
    /\ midi.notes = <<>>
    /\ i = 0
    /\ file.notes = <<>>

C8_Witness ==
  /\ pc = "done"
  /\ NotesRequested < 0
  /\ file.status = "written"
  /\ file.notes = <<>>

\* C9 as stated: the note loop executes exactly N iterations.
C9_ExactlyNIterations == MelodyBuilt => i = NotesRequested

\* C9 amended: every run reaches the success state or the terminal error
\* state, and the note loop, when it has run, has executed exactly max(N, 0)
\* iterations.
C9_Terminates ==
  /\ <>Terminated
  /\ [](MelodyBuilt => (i = Max0(NotesRequested) /\ Len(midi.notes) = i))

C9_Witness ==
  /\ pc = "done"
  /\ i = 2
  /\ NotesRequested = 2
  /\ Len(printed) = 3

\* C10: whatever is printed is printed in a state where the file has been
\* written with every note of the melody; if a lyrics step (or the parser)
\* fails the file is untouched; if opening or writing the file fails nothing
\* is printed.
C10_AllOrNothing ==
  /\ printed # <<>> =>
       /\ file.status = "written"
       /\ file.notes = midi.notes
       /\ Len(file.notes) = Max0(NotesRequested)
       /\ failedAt = "none"
  /\ failedAt \in LyricsSteps \cup {"parse"} => file = NoFile
  /\ failedAt \in {"open", "write"} => printed = <<>>

C10_Witness ==
  /\ pc = "error"
  /\ failedAt = "write"
  /\ lyrics # <<>>
  /\ printed = <<>>
  /\ file.status = "partial"

====
